---- MODULE Spec2Model ----
(***************************************************************************)
(* Technical-debt backend: the single-flight trigger protocol              *)
(* (ProjectService.trigger_analysis), the Celery worker task               *)
(* (analyze_project_task), the orchestrator and the debt scorer.           *)
(*                                                                         *)
(* Paths are tuples of one-character strings.  Scores are integers in      *)
(* units of 1/ScoreUnit.                                                   *)
(***************************************************************************)
EXTENDS Integers, Sequences, FiniteSets, Bags, TLC

VARIABLES
    project,          \* the row of table projects with id ExistingProject
    call,             \* one record per invocation of ProjectService.trigger_analysis
    task,             \* one record per Celery task (task_id = number of the call)
    revoked,          \* task ids passed to celery_app.control.revoke
    debts,            \* table technical_debts, a bag of rows
    clock,            \* datetime.now() of the worker, a logical time
    faults,           \* number of infrastructure failures injected so far
    heat_data,        \* scorer harness: argument of calculate_debt_score
    complexity_data,  \* scorer harness: argument of calculate_debt_score
    debt_scores,      \* scorer harness: value returned by calculate_debt_score
    scorer_pc,        \* scorer harness: "off", "ready" or "done"
    disk,             \* analyzer harness: the files on disk
    repo,             \* analyzer harness: the commits of the repository
    utcnow,           \* analyzer harness: datetime.now(timezone.utc), a day number
    git_fault,        \* analyzer harness: fault of the last history analysis
    runs,             \* analyzer harness: results of the pipeline runs so far
    edits,            \* analyzer harness: number of edits made to the file
    raw_path,         \* path harness: the path handed to the normalizers
    norm_keys,        \* path harness: the keys the normalizers returned
    analyzer_tasks    \* join harness: the two tasks of asyncio.create_task

vars == <<project, call, task, revoked, debts, clock, faults,
          heat_data, complexity_data, debt_scores, scorer_pc,
          disk, repo, utcnow, git_fault, runs, edits, raw_path, norm_keys,
          analyzer_tasks>>

coordVars == <<project, call, task, revoked, debts, clock, faults>>
scorerVars == <<heat_data, complexity_data, debt_scores, scorer_pc>>
harnessVars == <<disk, repo, utcnow, git_fault, runs, edits, raw_path, norm_keys,
                 analyzer_tasks>>

-----------------------------------------------------------------------------
(* Bounds and fixed environment *)

MaxCalls == 2
Calls == 1..MaxCalls

\* At most MaxFaults operations of the infrastructure (broker, database,
\* repository access) fail in one behaviour.
MaxFaults == 1

\* Number of worker processes of the Celery worker (its --concurrency).
MaxWorkers == 1

\* SQL NULL / Python None for a task id and for a datetime
NullId == <<>>
NoTime == <<>>

\* str(uuid.uuid4()) of call c
task_id(c) == <<"task", c>>

ExistingProject == "p1"
UnknownProject == "p404"
ProjectIds == {ExistingProject, UnknownProject}

\* The repository: a directory with two tracked source files.
RootDir == <<"r">>
FileA == <<"r", "/", "a">>
FileB == <<"r", "/", "b">>
\* A third file, whose name has an upper-case letter
FileUpperB == <<"r", "/", "B">>
SourceFiles == {FileA, FileB, FileUpperB}
KeyA == <<"a">>
KeyB == <<"b">>

\* os.name == 'nt'
OsIsNt == FALSE

\* Scores are kept as integers: the float x of the source is x * ScoreUnit.
\* 12000 is the common denominator of the heat formula, 20 that of the blend
\* in _heat_component.
ScoreUnit == 12000 * 20

\* Python None / empty string for a path, and the empty dict
NoPath == <<>>
EmptyDict == <<>>

-----------------------------------------------------------------------------
(* Python helpers *)

Min(a, b) == IF a <= b THEN a ELSE b
Max(a, b) == IF a >= b THEN a ELSE b

\* dict.get(key, default) or default, for numeric values
GetNum(m, k, d) == IF k \in DOMAIN m THEN (IF m[k] = 0 THEN d ELSE m[k]) ELSE d

\* dict.get(key, {}) or {}
GetDict(m, k) == IF k \in DOMAIN m THEN m[k] ELSE <<>>

\* dict.get(key) for path-valued entries; None when absent
GetPath(m, k) == IF k \in DOMAIN m THEN m[k] ELSE NoPath

-----------------------------------------------------------------------------
(* Paths *)

is_dir(p) == p = RootDir
is_file(p) == p \in SourceFiles

Slashes(p) == {i \in 1..Len(p) : p[i] = "/"}

\* Path.parent
parent(p) ==
    IF Slashes(p) = {} THEN p
    ELSE LET i == CHOOSE j \in Slashes(p) : \A l \in Slashes(p) : l <= j
         IN SubSeq(p, 1, i - 1)

\* Path.name
name(p) ==
    IF Slashes(p) = {} THEN p
    ELSE LET i == CHOOSE j \in Slashes(p) : \A l \in Slashes(p) : l <= j
         IN SubSeq(p, i + 1, Len(p))

IsUnder(p, root) ==
    /\ Len(p) > Len(root) + 1
    /\ SubSeq(p, 1, Len(root)) = root
    /\ p[Len(root) + 1] = "/"

\* Path.relative_to(root) succeeds
relative_to(p, root) == SubSeq(p, Len(root) + 2, Len(p))

Lower(ch) ==
    CASE ch = "A" -> "a"
      [] ch = "B" -> "b"
      [] ch = "R" -> "r"
      [] OTHER -> ch

RECURSIVE rstrip_slash(_)
rstrip_slash(s) ==
    IF s # <<>> /\ s[Len(s)] = "/" THEN rstrip_slash(SubSeq(s, 1, Len(s) - 1)) ELSE s

\* str.replace('\\', '/')
replace_backslash(value) ==
    [i \in 1..Len(value) |-> IF value[i] = "\\" THEN "/" ELSE value[i]]

\* str.lower()
lower(value) == [i \in 1..Len(value) |-> Lower(value[i])]

\* AnalysisOrchestrator._normalize_key
_normalize_key(value) ==
    IF value = <<>> THEN <<>>
    ELSE LET stripped == rstrip_slash(replace_backslash(value))
         IN IF OsIsNt THEN lower(stripped) ELSE stripped

\* str.split('/')
RECURSIVE SplitAt(_, _, _, _)
SplitAt(p, i, cur, acc) ==
    IF i > Len(p) THEN Append(acc, cur)
    ELSE IF p[i] = "/" THEN SplitAt(p, i + 1, <<>>, Append(acc, cur))
    ELSE SplitAt(p, i + 1, Append(cur, p[i]), acc)

\* '/'.join(comps)
RECURSIVE Join(_, _)
Join(comps, i) ==
    IF i > Len(comps) THEN <<>>
    ELSE IF i = Len(comps) THEN comps[i]
    ELSE comps[i] \o <<"/">> \o Join(comps, i + 1)

DotDot == <<".", ".">>

\* The loop of posixpath.normpath over the components
RECURSIVE NormComps(_, _, _, _)
NormComps(comps, i, initial_slashes, new_comps) ==
    IF i > Len(comps) THEN new_comps
    ELSE LET comp == comps[i]
         IN IF comp = <<>> \/ comp = <<".">>
            THEN NormComps(comps, i + 1, initial_slashes, new_comps)
            ELSE IF \/ comp # DotDot
                    \/ (~initial_slashes /\ new_comps = <<>>)
                    \/ (new_comps # <<>> /\ new_comps[Len(new_comps)] = DotDot)
            THEN NormComps(comps, i + 1, initial_slashes, Append(new_comps, comp))
            ELSE IF new_comps # <<>>
            THEN NormComps(comps, i + 1, initial_slashes,
                           SubSeq(new_comps, 1, Len(new_comps) - 1))
            ELSE NormComps(comps, i + 1, initial_slashes, new_comps)

\* os.path.normpath on a POSIX system: only '/' separates components
normpath(path) ==
    IF path = <<>> THEN <<".">>
    ELSE LET initial_slashes == path[1] = "/"
             joined == Join(NormComps(SplitAt(path, 1, <<>>, <<>>), 1,
                                      initial_slashes, <<>>), 1)
             result == IF initial_slashes THEN <<"/">> \o joined ELSE joined
         IN IF result = <<>> THEN <<".">> ELSE result

\* Path(p).resolve() for an absolute path on a file system without symbolic
\* links (the paths of the model are absolute: RootDir stands for an
\* absolute directory)
resolve(p) == normpath(p)

\* _normalize_storage_path of api/debts.py
_normalize_storage_path(value) ==
    IF value = <<>> THEN <<>>
    ELSE LET normalized == rstrip_slash(replace_backslash(value))
         IN IF OsIsNt THEN lower(normalized) ELSE normalized

\* _normalize_path of api/debts.py
_normalize_path(p) ==
    IF p = <<>> THEN p
    ELSE LET q == rstrip_slash(replace_backslash(normpath(p)))
         IN IF OsIsNt THEN lower(q) ELSE q

-----------------------------------------------------------------------------
(* GitHistoryAnalyzer *)

\* GitHistoryAnalyzer._resolve_repo_root
_resolve_repo_root(project_path) ==
    LET candidate == resolve(project_path)
    IN IF is_dir(candidate) THEN candidate ELSE parent(candidate)

\* A commit as pydriller yields it.  Dates are day numbers.  tracked = the
\* suffix of the path is in tracked_exts.
ModifiedFile(path, added, deleted, tracked) ==
    [path |-> path, added_lines |-> added, deleted_lines |-> deleted,
     tracked |-> tracked]
Commit(day, author, files) ==
    [committer_date |-> <<day>>, author |-> author, modified_files |-> files]

\* No fault, a fault of Repository(...) and a fault while commit k is
\* traversed
NoFault == <<>>
OpenFault == <<0>>
TraverseFault(k) == <<k>>
GitFaults(commits) == {NoFault, OpenFault} \cup {TraverseFault(k) : k \in 1..Len(commits)}

\* heat_data.setdefault(rel_path, {...}) followed by the updates of
\* lines 54-58
Accumulate(heat, commit, file) ==
    LET entry == IF file.path \in DOMAIN heat THEN heat[file.path]
                 ELSE [change_count |-> 0, authors |-> {}, last_modified |-> NoTime,
                       added_lines |-> 0, deleted_lines |-> 0]
        commit_time == commit.committer_date
        updated ==
            [change_count |-> entry.change_count + 1,
             authors |-> entry.authors \cup {commit.author},
             added_lines |-> entry.added_lines + file.added_lines,
             deleted_lines |-> entry.deleted_lines + file.deleted_lines,
             last_modified |->
                 IF entry.last_modified = NoTime
                    \/ commit_time[1] > entry.last_modified[1]
                 THEN commit_time ELSE entry.last_modified]
    IN (file.path :> updated) @@ heat

\* The loop over commit.modified_files (lines 38-58)
RECURSIVE FilesLoop(_, _, _, _)
FilesLoop(heat, commit, files, j) ==
    IF j > Len(files) THEN heat
    ELSE FilesLoop(IF files[j].path # NoPath /\ files[j].tracked
                   THEN Accumulate(heat, commit, files[j]) ELSE heat,
                   commit, files, j + 1)

\* The loop over repository.traverse_commits() (lines 33-64); the fault is
\* raised when commit number fault[1] is reached.
RECURSIVE Traverse(_, _, _, _)
Traverse(commits, i, fault, heat) ==
    IF i > Len(commits) THEN [raised |-> FALSE, heat_data |-> heat]
    ELSE IF fault = TraverseFault(i) THEN [raised |-> TRUE, heat_data |-> heat]
    ELSE Traverse(commits, i + 1, fault,
                  FilesLoop(heat, commits[i], commits[i].modified_files, 1))

\* min(len(data['authors']) / 4, 1.0) weighted by 0.2 (lines 77, 86)
author_diversity_of_three(n) == Min(n, 3) * 16000
author_diversity(n) == Min(n, 4) * 12000

\* recency_score weighted by 0.15 (lines 79-86)
recency_linear(last_modified, now) ==
    IF last_modified = NoTime THEN 0
    ELSE Max(0, 36000 - 200 * Max(0, now - last_modified[1]))
recency(last_modified, now) ==
    LET age_days == IF last_modified = NoTime THEN 0
                    ELSE Max(0, now - last_modified[1])
    IN IF last_modified = NoTime THEN 0
       ELSE IF age_days <= 7 THEN 36000
       ELSE Max(0, 36000 - 200 * age_days)

\* One entry of GitHistoryAnalyzer._calculate_heat_scores
HeatEntry(data, now) ==
    LET change_score == Min(data.change_count, 5) * 16800
        churn == data.added_lines + data.deleted_lines
        churn_score == Min(churn, 400) * 180
    IN [heat_score |-> Min(ScoreUnit, change_score + churn_score
                                       + author_diversity(Cardinality(data.authors))
                                       + recency(data.last_modified, now)),
        change_count |-> data.change_count,
        author_count |-> Cardinality(data.authors),
        churn |-> churn,
        last_modified |-> data.last_modified]

\* GitHistoryAnalyzer._calculate_heat_scores
_calculate_heat_scores(history, now) ==
    [k \in DOMAIN history |-> HeatEntry(history[k], now)]

\* A traversal handler that returns what was accumulated before the fault
GitResult_partial(traversal, now) == _calculate_heat_scores(traversal.heat_data, now)

\* Lines 59-66: the handlers of the traversal return {}, otherwise the heat
\* scores are computed
GitResult(traversal, now) ==
    IF traversal.raised THEN EmptyDict
    ELSE _calculate_heat_scores(traversal.heat_data, now)

\* GitHistoryAnalyzer.analyze.  env.commits is the history of the repository
\* at RootDir, env.now is datetime.now(timezone.utc), env.git_fault the fault
\* of this invocation.
GitHistoryAnalyzer_analyze(project_path, env) ==
    LET repo_root == _resolve_repo_root(project_path)
    IN IF env.git_fault = OpenFault \/ repo_root # RootDir THEN EmptyDict
       ELSE GitResult(Traverse(env.commits, 1, env.git_fault, EmptyDict), env.now)

-----------------------------------------------------------------------------
(* CodeComplexityAnalyzer *)

\* The text of a file as the analyzer sees it:
\*   language   what _detect_language yields for the file name
\*   readable   open() and read() succeed
\*   parses     the text is accepted by the Python parser (cc_visit, ast.parse)
\*   lines      source_code.splitlines(): length and kind of every line
\*   functions  the blocks of cc_visit / the function definitions of the tree
\*   bool_ops   number of BoolOp nodes with three or more operands
\*   short_names number of identifiers of at most two characters
\*   mi         what mi_visit returns for the text
Line(len, kind) == [len |-> len, kind |-> kind]
Block(complexity, lineno, endline, params, depth) ==
    [complexity |-> complexity, lineno |-> lineno, endline |-> endline,
     params |-> params, depth |-> depth]

\* The assignment of a value to a local variable: Body is what follows the
\* assignment, and sees the value under the variable's name
With(value, Body(_)) == Body(value)

\* Number of entries of a sequence that satisfy Test: the sum(1 for ... if
\* ...) and len([... if ...]) of _detect_code_smells (code_analyzer.py:148)
Count(seq, Test(_)) == Cardinality({i \in DOMAIN seq : Test(seq[i])})

\* max(..., default=0)
MaxOf(S) == IF S = {} THEN 0 ELSE CHOOSE x \in S : \A y \in S : y <= x

RECURSIVE SumOf(_, _)
SumOf(seq, i) == IF i > Len(seq) THEN 0 ELSE seq[i].complexity + SumOf(seq, i + 1)

AppendIf(seq, cond, x) == IF cond THEN Append(seq, x) ELSE seq

long_line_threshold == 120
extreme_line_threshold == 180

\* CodeComplexityAnalyzer._analyze_ast_smells; the lists are kept as their
\* lengths
_analyze_ast_smells(source) ==
    IF ~source.parses
    THEN [max_nesting_depth |-> 0, deeply_nested_functions |-> 0,
          long_parameter_functions |-> 0, complex_conditionals |-> 0,
          uninformative_identifiers |-> 0]
    ELSE [max_nesting_depth |->
              MaxOf({source.functions[i].depth : i \in DOMAIN source.functions}),
          deeply_nested_functions |-> Count(source.functions, LAMBDA f : f.depth >= 4),
          long_parameter_functions |-> Count(source.functions, LAMBDA f : f.params > 6),
          complex_conditionals |-> source.bool_ops,
          uninformative_identifiers |-> source.short_names]

\* A clamp that was left out
clamp_missing(x) == x

\* min(1.0, x) of the smell score
clamp(x) == Min(ScoreUnit, x)

\* min(n / divisor, cap) with cap in twentieths
Term(n, divisor, cap20) == Min((n * ScoreUnit) \div divisor, (cap20 * ScoreUnit) \div 20)

\* The term of the overlength lines (line 198)
overlength_term(lines) ==
    Term(Count(lines, LAMBDA l : l.len > long_line_threshold), 30, 7)

\* The term of an extreme line length (lines 205-206)
extreme_term(lines) ==
    IF MaxOf({lines[i].len : i \in DOMAIN lines}) > extreme_line_threshold
    THEN (3 * ScoreUnit) \div 20 ELSE 0

\* CodeComplexityAnalyzer._detect_code_smells
_detect_code_smells(source, complexity_results) ==
    LET lines == source.lines
        long_lines == Count(lines, LAMBDA l : l.len > long_line_threshold)
        longest_line == MaxOf({lines[i].len : i \in DOMAIN lines})
        line_count == Len(lines)
        length(r) == IF r.lineno > 0 /\ r.endline > 0 /\ r.endline >= r.lineno
                     THEN r.endline - r.lineno + 1 ELSE 0
        high_complexity_blocks == Count(complexity_results, LAMBDA r : r.complexity >= 12)
        long_functions == Count(complexity_results, LAMBDA r : length(r) >= 80)
    IN With(_analyze_ast_smells(source), LAMBDA ast_metrics :
    LET flags1 == AppendIf(<<>>, longest_line >= extreme_line_threshold,
                           "Lines exceeding 180 characters")
        flags2 == AppendIf(flags1, long_lines >= 5, "Multiple overlength lines")
        flags3 == AppendIf(flags2, high_complexity_blocks > 0,
                           "Functions with very high cyclomatic complexity")
        flags4 == AppendIf(flags3, long_functions > 0, "Long methods (>80 lines) detected")
        flags5 == AppendIf(flags4, ast_metrics.deeply_nested_functions > 0,
                           "Deeply nested control flow")
        flags6 == AppendIf(flags5, ast_metrics.long_parameter_functions > 0,
                           "Functions with too many parameters")
        flags7 == AppendIf(flags6, ast_metrics.complex_conditionals > 0,
                           "Complex boolean expressions")
        flags8 == AppendIf(flags7, ast_metrics.uninformative_identifiers > 0,
                           "Uninformative identifier names")
        score1 == clamp(overlength_term(lines)
                        + Term(high_complexity_blocks, 5, 8)
                        + Term(long_functions, 4, 7)
                        + Term(ast_metrics.deeply_nested_functions, 3, 8)
                        + Term(ast_metrics.long_parameter_functions, 4, 6)
                        + Term(ast_metrics.complex_conditionals, 6, 5)
                        + Term(ast_metrics.uninformative_identifiers, 8, 4)
                        + extreme_term(lines))
        score2 == clamp(score1 + Term(ast_metrics.max_nesting_depth, 20, 4))
        minified_candidate ==
            \/ longest_line >= 400
            \/ line_count <= 5 /\ longest_line >= 200
            \/ line_count = 1 /\ longest_line >= 150
    IN [smell_score |-> IF minified_candidate
                        THEN clamp(score2 + (7 * ScoreUnit) \div 20) ELSE score2,
        smell_flags |-> AppendIf(flags8, minified_candidate,
                                 "Potentially minified or generated asset"),
        longest_line |-> longest_line,
        long_line_count |-> long_lines,
        long_function_count |-> long_functions,
        high_complexity_blocks |-> high_complexity_blocks,
        max_nesting_depth |-> ast_metrics.max_nesting_depth,
        deeply_nested_functions |-> ast_metrics.deeply_nested_functions,
        long_parameter_functions |-> ast_metrics.long_parameter_functions,
        complex_conditionals |-> ast_metrics.complex_conditionals,
        uninformative_identifiers |-> ast_metrics.uninformative_identifiers,
        is_minified_candidate |-> minified_candidate])

\* CodeComplexityAnalyzer._find_source_files: the files in the order of
\* os.walk
_find_source_files(project_path, fs) ==
    IF is_file(project_path) THEN <<project_path>>
    ELSE SelectSeq(fs.order, LAMBDA f : IsUnder(f, project_path))

\* CodeComplexityAnalyzer._determine_project_root
_determine_project_root(project_path, project_root) ==
    LET candidate == IF project_root # NoPath THEN resolve(project_root)
                     ELSE resolve(project_path)
    IN IF is_dir(candidate) THEN candidate ELSE parent(candidate)

\* CodeComplexityAnalyzer._to_relative_path
_to_relative_path(file_path, project_root) ==
    IF IsUnder(file_path, project_root)
    THEN replace_backslash(relative_to(file_path, project_root))
    ELSE replace_backslash(file_path)

\* CodeComplexityAnalyzer._calculate_avg_complexity
_calculate_avg_complexity(complexity_results) ==
    IF complexity_results = <<>> THEN 0
    ELSE (SumOf(complexity_results, 1) * ScoreUnit) \div Len(complexity_results)

\* CodeComplexityAnalyzer._estimate_non_python_maintainability
_estimate_non_python_maintainability(loc, longest_line, minified) ==
    LET base == 100 * ScoreUnit
                - Min(80 * ScoreUnit, (longest_line * ScoreUnit) \div 2)
                - Min(30 * ScoreUnit, (loc * ScoreUnit) \div 5)
        capped == IF minified THEN Min(base, 12 * ScoreUnit) ELSE base
    IN Max(5 * ScoreUnit, capped)

\* Lines 35-69 of CodeComplexityAnalyzer.analyze: the structural path.
\* raw_metrics of radon: loc counts the lines, comments the comment lines,
\* lloc the statements.
analyze_python(source, abs_path, rel_path, language_hint) ==
    LET complexity_results == source.functions
        loc == Len(source.lines)
        comments == Count(source.lines, LAMBDA l : l.kind = "comment")
    IN With(_detect_code_smells(source, complexity_results), LAMBDA smell_info :
       [relative_path |-> rel_path,
        absolute_path |-> abs_path,
        language |-> language_hint,
        avg_complexity |-> _calculate_avg_complexity(complexity_results),
        max_complexity |->
            MaxOf({complexity_results[i].complexity : i \in DOMAIN complexity_results}),
        maintainability_index |-> source.mi,
        lines_of_code |-> loc,
        logical_lines |-> Count(source.lines, LAMBDA l : l.kind = "code"),
        comment_density |-> IF loc > 0 THEN (comments * ScoreUnit) \div loc ELSE 0,
        function_count |-> Len(complexity_results),
        smell_score |-> smell_info.smell_score,
        smell_flags |-> smell_info.smell_flags,
        longest_line |-> smell_info.longest_line,
        long_line_count |-> smell_info.long_line_count,
        long_function_count |-> smell_info.long_function_count,
        high_complexity_blocks |-> smell_info.high_complexity_blocks,
        max_nesting_depth |-> smell_info.max_nesting_depth,
        deeply_nested_functions |-> smell_info.deeply_nested_functions,
        long_parameter_functions |-> smell_info.long_parameter_functions,
        complex_conditionals |-> smell_info.complex_conditionals,
        uninformative_identifiers |-> smell_info.uninformative_identifiers])

\* CodeComplexityAnalyzer._analyze_non_python: the text-heuristic path
_analyze_non_python(source, abs_path, rel_path, language) ==
    LET lines == IF source.lines = <<>> THEN <<Line(0, "blank")>> ELSE source.lines
        loc == Len(lines)
        non_empty == Count(lines, LAMBDA l : l.kind # "blank")
        comment_lines == Count(lines, LAMBDA l : l.kind = "comment")
        comment_density == IF loc # 0 THEN (comment_lines * ScoreUnit) \div loc ELSE 0
        generated == language \in {"javascript-map", "json"}
    IN With(_detect_code_smells(source, <<>>), LAMBDA smell_info :
       [relative_path |-> rel_path,
        absolute_path |-> abs_path,
        language |-> language,
        avg_complexity |-> 0,
        max_complexity |-> 0,
        maintainability_index |->
            _estimate_non_python_maintainability(loc, smell_info.longest_line,
                                                 smell_info.is_minified_candidate),
        lines_of_code |-> loc,
        logical_lines |-> non_empty,
        comment_density |-> comment_density,
        function_count |-> 0,
        smell_score |-> IF generated
                        THEN clamp(smell_info.smell_score + ScoreUnit \div 4)
                        ELSE smell_info.smell_score,
        smell_flags |-> AppendIf(smell_info.smell_flags, generated,
                                 "Minified bundle or generated artifact"),
        longest_line |-> smell_info.longest_line,
        long_line_count |-> smell_info.long_line_count,
        long_function_count |-> 0,
        high_complexity_blocks |-> 0,
        max_nesting_depth |-> smell_info.max_nesting_depth,
        deeply_nested_functions |-> smell_info.deeply_nested_functions,
        long_parameter_functions |-> smell_info.long_parameter_functions,
        complex_conditionals |-> smell_info.complex_conditionals,
        uninformative_identifiers |-> smell_info.uninformative_identifiers])

\* Body of the try block of CodeComplexityAnalyzer.analyze for one file
\* (lines 27-73); raised = TRUE when open, read, cc_visit or mi_visit raise.
analyze_file(file_path, project_root_path, fs) ==
    LET source == fs.files[file_path]
        abs_path == resolve(file_path)
        rel_path == _to_relative_path(abs_path, project_root_path)
        language_hint == source.language
    IN IF ~source.readable \/ (language_hint = "python" /\ ~source.parses)
       THEN [raised |-> TRUE, rel_path |-> rel_path, metrics |-> EmptyDict]
       ELSE [raised |-> FALSE, rel_path |-> rel_path,
             metrics |-> IF language_hint = "python"
                         THEN analyze_python(source, abs_path, rel_path, language_hint)
                         ELSE _analyze_non_python(source, abs_path, rel_path,
                                                  language_hint)]

\* A loop that gives up at the first file that raises
RECURSIVE ComplexityLoop_abort(_, _, _, _, _)
ComplexityLoop_abort(files, i, root, fs, acc) ==
    IF i > Len(files) THEN acc
    ELSE With(analyze_file(files[i], root, fs), LAMBDA r :
            IF r.raised THEN acc
            ELSE ComplexityLoop_abort(files, i + 1, root, fs,
                                      (r.rel_path :> r.metrics) @@ acc))

\* The for loop of CodeComplexityAnalyzer.analyze (lines 25-77)
RECURSIVE ComplexityLoop(_, _, _, _, _)
ComplexityLoop(files, i, root, fs, acc) ==
    IF i > Len(files) THEN acc
    ELSE With(analyze_file(files[i], root, fs), LAMBDA r :
            ComplexityLoop(files, i + 1, root, fs,
                           IF r.raised THEN acc ELSE (r.rel_path :> r.metrics) @@ acc))

\* CodeComplexityAnalyzer.analyze
CodeComplexityAnalyzer_analyze(project_path, project_root, fs) ==
    ComplexityLoop(_find_source_files(project_path, fs), 1,
                   _determine_project_root(project_path, project_root),
                   fs, EmptyDict)

-----------------------------------------------------------------------------
(* The project on disk and its history *)

\* datetime.now(timezone.utc) on the day the project is first analyzed
Today == 100

Authors == <<"u1", "u2", "u3">>

\* File a: 10 commits of 3 authors, 600 changed lines, the last one today.
\* File b: one old commit, which also touches an untracked file.
CommitA(i) ==
    Commit(Today - 10 + i, Authors[(i % 3) + 1], <<ModifiedFile(KeyA, 40, 20, TRUE)>>)
CommitB ==
    Commit(10, "u1", <<ModifiedFile(KeyB, 10, 0, TRUE),
                       ModifiedFile(<<"d">>, 5, 0, FALSE)>>)
CommitsA == [i \in 1..10 |-> CommitA(i)]
Commits == <<CommitB>> \o CommitsA

SourceA ==
    [language |-> "python", readable |-> TRUE, parses |-> TRUE,
     lines |-> <<Line(40, "code"), Line(30, "comment"), Line(130, "code"),
                 Line(40, "code"), Line(20, "code"), Line(0, "blank")>>,
     functions |-> <<Block(3, 1, 5, 2, 1)>>,
     bool_ops |-> 0, short_names |-> 1, mi |-> 80 * ScoreUnit]

\* An empty file
EmptySource(language) ==
    [language |-> language, readable |-> TRUE, parses |-> TRUE,
     lines |-> <<>>, functions |-> <<>>,
     bool_ops |-> 0, short_names |-> 0, mi |-> 100 * ScoreUnit]

FileSystem(order, files) == [order |-> order, files |-> files]

RepoFiles ==
    FileSystem(<<FileA, FileB>>, (FileA :> SourceA) @@ (FileB :> EmptySource("python")))

\* What one run of the analyzers reads
Env(files, commits, now_, fault) ==
    [fs |-> files, commits |-> commits, now |-> now_, git_fault |-> fault]

-----------------------------------------------------------------------------
(* TechnicalDebtCalculator *)

\* TechnicalDebtCalculator._heat_component
_heat_component(metrics) ==
    LET base_score == GetNum(metrics, "heat_score", 0)
        change_boost == Min(GetNum(metrics, "change_count", 0), 6) * 10000
        churn == GetNum(metrics, "churn", 0)
        churn_boost == Min(churn, 500) * 72
    IN Max(base_score, change_boost + (3 * base_score) \div 4 + churn_boost)

\* len(metrics.get('smell_flags', []) or [])
GetLen(m, k) == IF k \in DOMAIN m THEN Len(m[k]) ELSE 0

\* TechnicalDebtCalculator._complexity_component.  max_complexity is an
\* integer of radon, avg_complexity a float.
_complexity_component(metrics) ==
    LET complexity == GetNum(metrics, "avg_complexity", 0)
        max_complexity == IF GetNum(metrics, "max_complexity", 0) # 0
                          THEN metrics.max_complexity * ScoreUnit
                          ELSE complexity
    IN Min(max_complexity \div 8, ScoreUnit)

\* TechnicalDebtCalculator._maintainability_component
_maintainability_component(metrics) ==
    LET mi == GetNum(metrics, "maintainability_index", 100 * ScoreUnit)
    IN Min(Max((100 * ScoreUnit - mi) \div 60, 0), ScoreUnit)

\* TechnicalDebtCalculator._size_component
_size_component(metrics) ==
    LET loc == GetNum(metrics, "lines_of_code", 0)
        functions == GetNum(metrics, "function_count", 0)
        loc_component == Min((loc * ScoreUnit) \div 600, ScoreUnit)
        function_component == Min((functions * ScoreUnit) \div 30, ScoreUnit)
    IN Max(loc_component, function_component)

\* TechnicalDebtCalculator._comment_component; 0.35 is 7 * ScoreUnit / 20
_comment_component(metrics) ==
    LET density == GetNum(metrics, "comment_density", 0)
        threshold == (7 * ScoreUnit) \div 20
    IN IF density >= threshold THEN 0
       ELSE Min(((threshold - density) * 20) \div 7, ScoreUnit)

\* TechnicalDebtCalculator._smell_component
_smell_component(metrics) ==
    LET score == GetNum(metrics, "smell_score", 0)
        penalty == Min((GetLen(metrics, "smell_flags") * ScoreUnit) \div 4, ScoreUnit)
        combined == Max(score, penalty)
        longest_line == GetNum(metrics, "longest_line", 0)
        boosted == IF longest_line >= 220
                   THEN Min(ScoreUnit, combined + ScoreUnit \div 5)
                   ELSE combined
    IN Min(ScoreUnit, boosted)

\* debt_score is kept in units of 1/DebtUnit: the weights 0.3, 0.2, 0.15,
\* 0.1, 0.05, 0.2 are 6, 4, 3, 2, 1, 4 twentieths.
DebtUnit == 20 * ScoreUnit

\* A ladder that compares with > where the source compares with >=
_classify_severity_strict(score) ==
    IF score > DebtUnit \div 4 THEN "critical"
    ELSE IF score > (3 * DebtUnit) \div 20 THEN "high"
    ELSE IF score > DebtUnit \div 20 THEN "medium"
    ELSE "low"

\* TechnicalDebtCalculator._classify_severity
_classify_severity(score) ==
    IF score >= DebtUnit \div 4 THEN "critical"
    ELSE IF score >= (3 * DebtUnit) \div 20 THEN "high"
    ELSE IF score >= DebtUnit \div 20 THEN "medium"
    ELSE "low"

\* Body of the loop of calculate_debt_score for one file_path
DebtRecord(file_path, heat, complexity) ==
    LET heat_metrics == GetDict(heat, file_path)
        complexity_metrics == GetDict(complexity, file_path)
        heat_component == _heat_component(heat_metrics)
        complexity_component == _complexity_component(complexity_metrics)
        maintainability_component == _maintainability_component(complexity_metrics)
        size_component == _size_component(complexity_metrics)
        comment_component == _comment_component(complexity_metrics)
        smell_component == _smell_component(complexity_metrics)
        debt_score == Min(DebtUnit, heat_component * 6
                                    + complexity_component * 4
                                    + maintainability_component * 3
                                    + size_component * 2
                                    + comment_component
                                    + smell_component * 4)
    IN [debt_score |-> debt_score,
        severity |-> _classify_severity(debt_score),
        heat_metrics |-> heat_metrics,
        complexity_metrics |-> complexity_metrics,
        score_breakdown |-> [heat_component |-> heat_component,
                             complexity_component |-> complexity_component,
                             maintainability_component |-> maintainability_component,
                             size_component |-> size_component,
                             comment_component |-> comment_component,
                             smell_component |-> smell_component]]

\* A scorer that walks the heat map only
all_files_heat_only(heat, complexity) == DOMAIN heat

\* all_files of calculate_debt_score
all_files(heat, complexity) == DOMAIN heat \cup DOMAIN complexity

RECURSIVE ScoreLoop(_, _, _, _)
ScoreLoop(files, heat, complexity, acc) ==
    IF files = {} THEN acc
    ELSE LET f == CHOOSE x \in files : TRUE
         IN ScoreLoop(files \ {f}, heat, complexity,
                      (f :> DebtRecord(f, heat, complexity)) @@ acc)

\* TechnicalDebtCalculator.calculate_debt_score
calculate_debt_score(heat, complexity) ==
    ScoreLoop(all_files(heat, complexity), heat, complexity, EmptyDict)

-----------------------------------------------------------------------------
(* AnalysisOrchestrator *)

\* AnalysisOrchestrator._derive_relative_key
_derive_relative_key(project_path, file_path) ==
    LET file_resolved == resolve(file_path)
        resolved_root == resolve(project_path)
        root == IF is_file(resolved_root) THEN parent(resolved_root) ELSE resolved_root
    IN IF project_path # NoPath /\ IsUnder(file_resolved, root)
       THEN _normalize_key(relative_to(file_resolved, root))
       ELSE _normalize_key(file_resolved)

\* A filter that keeps every entry
_filter_metrics_keep_all(metrics, target_key, file_path) == metrics

\* AnalysisOrchestrator._filter_metrics
_filter_metrics(metrics, target_key, file_path) ==
    LET normalized_target ==
            IF target_key # NoPath THEN target_key ELSE _normalize_key(name(file_path))
        alt(value) ==
            IF GetPath(value, "relative_path") # NoPath
            THEN GetPath(value, "relative_path")
            ELSE GetPath(value, "absolute_path")
        keep(key) ==
            \/ _normalize_key(key) = normalized_target
            \/ /\ alt(metrics[key]) # NoPath
               /\ _normalize_key(alt(metrics[key])) = normalized_target
    IN [key \in {k \in DOMAIN metrics : keep(k)} |-> metrics[key]]

\* AnalysisOrchestrator.analyze_project.  raised = TRUE stands for the
\* ValueError of the first statement.
analyze_project(project_path, file_path, env) ==
    IF project_path = NoPath /\ file_path = NoPath
    THEN [raised |-> TRUE, git_analysis |-> EmptyDict,
          complexity_analysis |-> EmptyDict, debt_scores |-> EmptyDict]
    ELSE
    LET git_target == IF project_path # NoPath THEN project_path ELSE file_path
        complexity_target == IF file_path # NoPath THEN file_path ELSE project_path
        resolved_project_root ==
            IF project_path # NoPath THEN project_path ELSE parent(resolve(file_path))
        filtered(metrics) ==
            IF file_path # NoPath
            THEN _filter_metrics(metrics, _derive_relative_key(git_target, file_path),
                                 file_path)
            ELSE metrics
    IN With(filtered(GitHistoryAnalyzer_analyze(git_target, env)), LAMBDA git_data :
       With(filtered(CodeComplexityAnalyzer_analyze(complexity_target,
                                                    resolved_project_root, env.fs)),
            LAMBDA complexity_data_ :
       With(calculate_debt_score(git_data, complexity_data_), LAMBDA scores :
       [raised |-> FALSE,
        git_analysis |-> git_data,
        complexity_analysis |-> complexity_data_,
        debt_scores |-> filtered(scores)])))

-----------------------------------------------------------------------------
(* Initial state *)

\* scan_log holds the records the task appended to logs/analysis_scan.log
NoTask == [state |-> "none", result |-> "none", raised |-> FALSE,
           scores |-> EmptyDict, remaining |-> {}, processed |-> 0,
           total |-> 0, celery |-> "PENDING", scan_log |-> <<>>]

NoCall == [pc |-> "init", project_id |-> ExistingProject, file_path |-> NoPath,
           outcome |-> "none"]

\* Project row as created by BaseRepository.create with the column defaults
NewProject(local_path) ==
    [status |-> "idle", current_analysis_id |-> NullId,
     last_analysis_id |-> NullId, last_analysis_at |-> NoTime,
     local_path |-> local_path]

CoordInit(paths) ==
    /\ project \in {NewProject(lp) : lp \in paths}
    /\ call = [c \in Calls |-> NoCall]
    /\ task = [c \in Calls |-> NoTask]
    /\ revoked = {}
    /\ debts = EmptyBag
    /\ clock = 1
    /\ faults = 0

\* A task of asyncio.create_task that has not run yet: next is the commit or
\* the file it handles next, partial the local dict it fills, result what
\* it returned
NewTask == [pc |-> "created", next |-> 1, partial |-> EmptyDict, result |-> EmptyDict]
NoAnalyzers == [git |-> NewTask, complexity |-> NewTask]

\* The harness variables when no harness runs
HarnessInit ==
    /\ disk = RepoFiles
    /\ repo = Commits
    /\ utcnow = Today
    /\ git_fault = NoFault
    /\ runs = <<>>
    /\ edits = 0
    /\ raw_path = NoPath
    /\ norm_keys = EmptyDict
    /\ analyzer_tasks = NoAnalyzers

Init ==
    /\ CoordInit({RootDir, NoPath})
    /\ heat_data = EmptyDict
    /\ complexity_data = EmptyDict
    /\ debt_scores = EmptyDict
    /\ scorer_pc = "off"
    /\ HarnessInit

-----------------------------------------------------------------------------
(* Failure injection: ok = FALSE is an operation of the broker, the         *)
(* database or the repository raising; it uses up one unit of the budget.   *)

Outcome(ok) ==
    IF ok THEN UNCHANGED faults
    ELSE faults < MaxFaults /\ faults' = faults + 1

-----------------------------------------------------------------------------
(* ProjectService.trigger_analysis *)

\* celery_app.control.revoke(task_id, terminate=False)
revoke(c) == revoked' = revoked \cup {task_id(c)}

\* What apply_async does: the task is sent, or it raises an error that the
\* handler of line 40 recognises as a broker error (a RedisError, or a
\* message that mentions redis or the broker), or it raises another error
SendOutcomes == {"sent", "broker_error", "other_error"}

\* Lines 37-47: allocate the task id and apply_async.  Calls are numbered in
\* the order in which they reach apply_async.  The handler of line 40 raises
\* only from inside its inner try block: for an error that is not a broker
\* error the condition of line 44 is false, nothing is raised and the
\* method goes on to the transaction of line 50.
TriggerEnqueue(c, pid, fp, send) ==
    /\ call[c].pc = "init"
    /\ \A d \in Calls : d < c => call[d].pc # "init"
    /\ Outcome(send = "sent")
    /\ IF send = "sent"
       THEN /\ call' = [call EXCEPT ![c] = [pc |-> "enqueued", project_id |-> pid,
                                            file_path |-> fp, outcome |-> "none"]]
            /\ task' = [task EXCEPT ![c].state = "queued"]
       ELSE IF send = "broker_error"
       THEN /\ call' = [call EXCEPT ![c] = [pc |-> "returned", project_id |-> pid,
                                            file_path |-> fp,
                                            outcome |-> "enqueue_failed"]]
            /\ UNCHANGED task
       ELSE /\ call' = [call EXCEPT ![c] = [pc |-> "enqueued", project_id |-> pid,
                                            file_path |-> fp, outcome |-> "none"]]
            /\ UNCHANGED task
    /\ UNCHANGED <<project, revoked, debts, clock>>
    /\ UNCHANGED <<scorerVars, harnessVars>>

\* The guard of line 62
already_analyzing(p) ==
    p.current_analysis_id # NullId /\ p.status = "analyzing"

\* Lines 50-83: the transaction on the project row (SELECT ... FOR UPDATE).
\* txOk = FALSE when the transaction raises an SQLAlchemy error.
TriggerClaim(c, txOk) ==
    /\ call[c].pc = "enqueued"
    /\ Outcome(txOk)
    /\ IF ~txOk
       THEN /\ revoke(c)
            /\ call' = [call EXCEPT ![c].pc = "returned", ![c].outcome = "db_error"]
            /\ UNCHANGED project
       ELSE IF call[c].project_id # ExistingProject
       THEN /\ revoke(c)
            /\ call' = [call EXCEPT ![c].pc = "returned",
                                    ![c].outcome = "project_not_found"]
            /\ UNCHANGED project
       ELSE IF already_analyzing(project)
       THEN /\ revoke(c)
            /\ call' = [call EXCEPT ![c].pc = "returned",
                                    ![c].outcome = "already_analyzing"]
            /\ UNCHANGED project
       ELSE /\ project' = [project EXCEPT !.current_analysis_id = task_id(c),
                                          !.status = "queued"]
            /\ call' = [call EXCEPT ![c].pc = "returned", ![c].outcome = "ok"]
            /\ UNCHANGED revoked
    /\ UNCHANGED <<task, debts, clock>>
    /\ UNCHANGED <<scorerVars, harnessVars>>

-----------------------------------------------------------------------------
(* analyze_project_task, executed by a Celery worker *)

\* The worker drops a task whose id it has been told to revoke.
TaskDiscard(c) ==
    /\ task[c].state = "queued"
    /\ task_id(c) \in revoked
    /\ task' = [task EXCEPT ![c].state = "discarded", ![c].celery = "REVOKED"]
    /\ UNCHANGED <<project, call, revoked, debts, clock, faults>>
    /\ UNCHANGED <<scorerVars, harnessVars>>

\* Tasks a worker process is executing
Executing == {c \in Calls : task[c].state = "persisting"}

\* A total that does not follow the number of files
progress_total_fixed(scores) == 1

\* Line 73: total = max(1, len(debt_scores))
progress_total(scores) == Max(1, Cardinality(DOMAIN scores))

\* Lines 36-75: load the project, mark it analyzing, report STARTED and run
\* the orchestrator on the target (the analysis reads the file system and
\* the repository only).  commitOk = FALSE when db.commit() raises (the
\* handler rolls back); gitFault # NoFault when the repository cannot be
\* read.  An exception of the orchestrator leaves through the handler of
\* line 143.
TaskStart(c, commitOk, gitFault) ==
    LET gitOk == gitFault = NoFault
    IN
    /\ task[c].state = "queued"
    /\ task_id(c) \notin revoked
    /\ Cardinality(Executing) < MaxWorkers
    /\ IF call[c].project_id # ExistingProject
       THEN /\ commitOk /\ gitOk
            /\ task' = [task EXCEPT ![c].state = "finished", ![c].result = "error",
                                    ![c].celery = "SUCCESS"]
            /\ UNCHANGED <<project, faults>>
       ELSE LET target == IF call[c].file_path # NoPath THEN call[c].file_path
                          ELSE project.local_path
            IN \E analysis_result \in
                   {analyze_project(target, NoPath,
                                    Env(RepoFiles, Commits, Today + clock - 1, gitFault))} :
               LET scores == analysis_result.debt_scores
               IN
               /\ commitOk \/ gitOk
               /\ Outcome(commitOk /\ gitOk)
               /\ IF commitOk
                  THEN project' = [project EXCEPT
                                      !.current_analysis_id = task_id(c),
                                      !.status = "analyzing"]
                  ELSE UNCHANGED project
               /\ IF analysis_result.raised
                  THEN /\ gitOk
                       /\ task' = [task EXCEPT ![c].state = "finished",
                                               ![c].result = "error",
                                               ![c].raised = TRUE,
                                               ![c].celery = "SUCCESS"]
                  ELSE task' = [task EXCEPT
                                   ![c].state = "persisting",
                                   ![c].scores = scores,
                                   ![c].remaining = DOMAIN scores,
                                   ![c].processed = 0,
                                   ![c].total = progress_total(scores),
                                   ![c].celery = "STARTED"]
    /\ UNCHANGED <<call, revoked, debts, clock>>
    /\ UNCHANGED <<scorerVars, harnessVars>>

\* BaseRepository.create on table technical_debts: always an INSERT
create(table, row) == table (+) SetToBag({row})

\* The order of debt_scores.items(): one fixed order of the keys
ItemOrder == <<KeyA, KeyB>>
next_item(keys) ==
    LET i == CHOOSE j \in 1..Len(ItemOrder) :
                 /\ ItemOrder[j] \in keys
                 /\ \A l \in 1..(j - 1) : ItemOrder[l] \notin keys
    IN ItemOrder[i]

\* Lines 89-120: the task after debt_repo.create returned or raised.  The
\* exception is swallowed: the file is collected and counted either way.
after_create_abort(t, fpath, createOk) ==
    IF createOk
    THEN [t EXCEPT !.remaining = @ \ {fpath}, !.processed = @ + 1,
                   !.celery = "PROGRESS"]
    ELSE [t EXCEPT !.state = "finished", !.result = "error", !.raised = TRUE,
                   !.celery = "SUCCESS"]
after_create(t, fpath, createOk) ==
    [t EXCEPT !.remaining = @ \ {fpath}, !.processed = @ + 1,
              !.celery = "PROGRESS"]

\* Lines 76-120: one iteration of the loop over debt_scores.items().
\* createOk = FALSE when debt_repo.create raises (swallowed).
TaskPersist(c, fpath, createOk) ==
    /\ task[c].state = "persisting"
    /\ task[c].remaining # {}
    /\ fpath = next_item(task[c].remaining)
    /\ Outcome(createOk)
    /\ debts' = IF createOk
                THEN create(debts, [project_id |-> call[c].project_id,
                                    file_path |-> fpath])
                ELSE debts
    /\ task' = [task EXCEPT ![c] = after_create(@, fpath, createOk)]
    /\ UNCHANGED <<project, call, revoked, clock>>
    /\ UNCHANGED <<scorerVars, harnessVars>>

\* _write_scan_log: the records appended for the entries (file paths)
_write_scan_log(entries) ==
    IF entries = <<>>
    THEN <<[file_path |-> NoPath, details |-> "No files analyzed or results empty"]>>
    ELSE [i \in DOMAIN entries |-> [file_path |-> entries[i], details |-> "metadata"]]

\* collected_scores at the end of the loop: the files in the order of the loop
collected_scores(scores) == SelectSeq(ItemOrder, LAMBDA k : k \in DOMAIN scores)

\* Lines 122-141: release the project and return the result.
\* commitOk = FALSE when db.commit() raises (the handler rolls back).
TaskFinish(c, commitOk) ==
    /\ task[c].state = "persisting"
    /\ task[c].remaining = {}
    /\ Outcome(commitOk)
    /\ IF commitOk
       THEN project' = [project EXCEPT !.current_analysis_id = NullId,
                                       !.last_analysis_id = task_id(c),
                                       !.last_analysis_at = <<clock>>,
                                       !.status = "idle"]
       ELSE UNCHANGED project
    /\ task' = [task EXCEPT ![c].state = "finished", ![c].result = "completed",
                            ![c].scan_log =
                                @ \o _write_scan_log(collected_scores(task[c].scores)),
                            ![c].scores = EmptyDict, ![c].processed = 0,
                            ![c].total = 0, ![c].celery = "SUCCESS"]
    /\ clock' = clock + 1
    /\ UNCHANGED <<call, revoked, debts>>
    /\ UNCHANGED <<scorerVars, harnessVars>>

-----------------------------------------------------------------------------
(* get_analysis_status of api/projects.py *)

\* Lines 268-278: the status reported for a Celery state; a state that the
\* mapping does not list is reported as it is, in lower case
get_analysis_status(celery_state) ==
    CASE celery_state \in {"PENDING", "RECEIVED"} -> "pending"
      [] celery_state \in {"STARTED", "RETRY"} -> "running"
      [] celery_state = "SUCCESS" -> "completed"
      [] celery_state = "FAILURE" -> "failed"
      [] celery_state = "PROGRESS" -> "progress"
      [] celery_state = "REVOKED" -> "revoked"

-----------------------------------------------------------------------------
(* Specification of the coordinator and the worker *)

\* Arguments a client may send: (project_id, file_path)
TriggerArgs == {<<ExistingProject, NoPath>>, <<ExistingProject, FileA>>,
                <<UnknownProject, NoPath>>}

Next ==
    \/ \E c \in Calls, args \in TriggerArgs, send \in SendOutcomes :
          TriggerEnqueue(c, args[1], args[2], send)
    \/ \E c \in Calls, txOk \in BOOLEAN : TriggerClaim(c, txOk)
    \/ \E c \in Calls : TaskDiscard(c)
    \/ \E c \in Calls, commitOk \in BOOLEAN, gitFault \in GitFaults(Commits) :
          TaskStart(c, commitOk, gitFault)
    \/ \E c \in Calls, fpath \in {KeyA, KeyB}, createOk \in BOOLEAN :
          TaskPersist(c, fpath, createOk)
    \/ \E c \in Calls, commitOk \in BOOLEAN : TaskFinish(c, commitOk)

Spec == Init /\ [][Next]_vars

-----------------------------------------------------------------------------
(* Scorer harness: calculate_debt_score applied to bounded inputs *)

ScoreKeys == {KeyA, KeyB}

HeatSamples ==
    { [heat_score |-> 0, change_count |-> 0, author_count |-> 0, churn |-> 0],
      [heat_score |-> 60000, change_count |-> 3, author_count |-> 1, churn |-> 250],
      [heat_score |-> ScoreUnit, change_count |-> 10, author_count |-> 3,
       churn |-> 600] }

ComplexitySamples ==
    { [relative_path |-> KeyA, absolute_path |-> FileA, language |-> "python",
       lines_of_code |-> 120],
      [relative_path |-> KeyB, absolute_path |-> FileB, language |-> "json",
       lines_of_code |-> 0],
      [relative_path |-> KeyA, absolute_path |-> FileA, language |-> "python",
       avg_complexity |-> 5 * (ScoreUnit \div 2), max_complexity |-> 7,
       maintainability_index |-> 70 * ScoreUnit, lines_of_code |-> 300,
       function_count |-> 12, comment_density |-> (7 * ScoreUnit) \div 40,
       smell_score |-> (2 * ScoreUnit) \div 5,
       smell_flags |-> <<"Deeply nested control flow">>, longest_line |-> 100],
      [relative_path |-> KeyB, absolute_path |-> FileB, language |-> "python",
       avg_complexity |-> 20 * ScoreUnit, max_complexity |-> 30,
       maintainability_index |-> 10 * ScoreUnit, lines_of_code |-> 2000,
       function_count |-> 50, comment_density |-> 0,
       smell_score |-> ScoreUnit,
       smell_flags |-> <<"Lines exceeding 180 characters",
                         "Multiple overlength lines",
                         "Long methods (>80 lines) detected",
                         "Deeply nested control flow",
                         "Complex boolean expressions">>,
       longest_line |-> 500],
      [relative_path |-> KeyA, absolute_path |-> FileA, language |-> "python",
       avg_complexity |-> 30 * ScoreUnit, max_complexity |-> 45,
       maintainability_index |-> 0, lines_of_code |-> 900,
       function_count |-> 20, comment_density |-> 0,
       smell_score |-> ScoreUnit \div 2,
       smell_flags |-> <<"Functions with very high cyclomatic complexity">>,
       longest_line |-> 100] }

\* All dicts with keys among ScoreKeys and values among samples
Dicts(samples) == UNION {[S -> samples] : S \in SUBSET ScoreKeys}

InitScore ==
    /\ CoordInit({RootDir})
    /\ heat_data \in Dicts(HeatSamples)
    /\ complexity_data \in Dicts(ComplexitySamples)
    /\ debt_scores = EmptyDict
    /\ scorer_pc = "ready"
    /\ HarnessInit

Score ==
    /\ scorer_pc = "ready"
    /\ debt_scores' = calculate_debt_score(heat_data, complexity_data)
    /\ scorer_pc' = "done"
    /\ UNCHANGED <<heat_data, complexity_data>>
    /\ UNCHANGED <<coordVars, harnessVars>>

NextScore == Score

SpecScore == InitScore /\ [][NextScore]_vars

-----------------------------------------------------------------------------
(* Analyzer harness: CodeComplexityAnalyzer.analyze on one file that is     *)
(* edited between the analyses                                               *)

\* Number of edits made to the file
MaxEdits == 2

\* Five lines, one of them of 250 characters
FiveLines(language) ==
    [language |-> language, readable |-> TRUE, parses |-> language = "python",
     lines |-> <<Line(40, "code"), Line(40, "code"), Line(250, "code"),
                 Line(40, "comment"), Line(40, "code")>>,
     functions |-> <<>>, bool_ops |-> 0, short_names |-> 0,
     mi |-> 90 * ScoreUnit]

\* Two long, complex, nested functions with many parameters behind a very
\* long first line
SmellySource ==
    [language |-> "python", readable |-> TRUE, parses |-> TRUE,
     lines |-> [i \in 1..160 |-> IF i = 1 THEN Line(450, "code") ELSE Line(40, "code")],
     functions |-> <<Block(12, 1, 80, 7, 4), Block(14, 81, 160, 7, 5)>>,
     bool_ops |-> 2, short_names |-> 3, mi |-> 20 * ScoreUnit]

SmellSources ==
    {EmptySource("python"), EmptySource("javascript"), EmptySource("json"),
     FiveLines("python"), FiveLines("javascript"), SourceA, SmellySource}

InitSmell ==
    /\ CoordInit({RootDir})
    /\ heat_data = EmptyDict
    /\ complexity_data = EmptyDict
    /\ debt_scores = EmptyDict
    /\ scorer_pc = "ready"
    /\ disk \in {FileSystem(<<FileA>>, FileA :> src) : src \in SmellSources}
    /\ repo = Commits
    /\ utcnow = Today
    /\ git_fault = NoFault
    /\ runs = <<>>
    /\ edits = 0
    /\ raw_path = NoPath
    /\ norm_keys = EmptyDict
    /\ analyzer_tasks = NoAnalyzers

\* The analyzer is run on the file
AnalyzeSource ==
    /\ scorer_pc = "ready"
    /\ complexity_data' = CodeComplexityAnalyzer_analyze(FileA, NoPath, disk)
    /\ scorer_pc' = "done"
    /\ UNCHANGED <<heat_data, debt_scores>>
    /\ UNCHANGED <<coordVars, harnessVars>>

\* The file is rewritten with the text src
Rewrite(src) ==
    /\ scorer_pc = "done"
    /\ edits < MaxEdits
    /\ disk' = [disk EXCEPT !.files[FileA] = src]
    /\ edits' = edits + 1
    /\ scorer_pc' = "ready"
    /\ UNCHANGED <<heat_data, complexity_data, debt_scores>>
    /\ UNCHANGED <<coordVars, repo, utcnow, git_fault, runs, raw_path, norm_keys,
                   analyzer_tasks>>

\* Overlength lines
NewLines == {Line(130, "code"), Line(130, "comment"), Line(190, "code"),
             Line(250, "code"), Line(450, "code")}

\* One more overlength line at the end of the file
AddLine(line) ==
    LET src == disk.files[FileA]
    IN Rewrite([src EXCEPT !.lines = Append(@, line)])

\* The longest line is made longer
LengthenLongestLine(len) ==
    LET src == disk.files[FileA]
        longest == MaxOf({src.lines[i].len : i \in DOMAIN src.lines})
    IN /\ src.lines # <<>>
       /\ len > longest
       /\ LET i == CHOOSE j \in DOMAIN src.lines : src.lines[j].len = longest
          IN Rewrite([src EXCEPT !.lines[i].len = len])

\* The functions one may add: complexity, number of lines, parameters and
\* nesting depth
NewFunctions ==
    ("complex" :> <<12, 3, 1, 1>>) @@ ("long" :> <<2, 80, 1, 1>>)
    @@ ("nested" :> <<2, 6, 1, 4>>) @@ ("params" :> <<2, 3, 7, 1>>)

\* One more function at the end of a Python file
AddFunction(kind) ==
    LET src == disk.files[FileA]
        f == NewFunctions[kind]
        n == Len(src.lines)
    IN /\ src.parses
       /\ Rewrite([src EXCEPT
                     !.lines = @ \o [i \in 1..f[2] |-> Line(40, "code")],
                     !.functions = Append(@, Block(f[1], n + 1, n + f[2], f[3], f[4]))])

\* One more line with a boolean expression of three operands
AddConditional ==
    LET src == disk.files[FileA]
    IN /\ src.parses
       /\ Rewrite([src EXCEPT !.lines = Append(@, Line(40, "code")),
                              !.bool_ops = @ + 1])

\* One more line that uses a name of one or two characters
AddShortName ==
    LET src == disk.files[FileA]
    IN /\ src.parses
       /\ Rewrite([src EXCEPT !.lines = Append(@, Line(5, "code")),
                              !.short_names = @ + 1])

NextSmell ==
    \/ AnalyzeSource
    \/ \E line \in NewLines : AddLine(line)
    \/ \E len \in {130, 190, 250, 450} : LengthenLongestLine(len)
    \/ \E kind \in DOMAIN NewFunctions : AddFunction(kind)
    \/ AddConditional
    \/ AddShortName

SpecSmell == InitSmell /\ [][NextSmell]_vars

-----------------------------------------------------------------------------
(* Pipeline harness: AnalysisOrchestrator.analyze_project run twice on one   *)
(* project, at the same or at different times                                *)

\* The latest day of the second run, counted from Today
MaxAge == 10

\* Days that pass between two events
TickDays == {3, 10}

\* A file that cannot be opened, and a Python file the parser rejects
Unreadable == [EmptySource("python") EXCEPT !.readable = FALSE]
Unparsable == [SourceA EXCEPT !.parses = FALSE]

PipelineDisks ==
    {FileSystem(order, (FileA :> srcA) @@ (FileB :> srcB)) :
        order \in {<<FileA, FileB>>, <<FileB, FileA>>},
        srcA \in {SourceA, Unreadable},
        srcB \in {EmptySource("python"), FiveLines("javascript"), Unparsable}}

InitPipeline ==
    /\ CoordInit({RootDir})
    /\ heat_data = EmptyDict
    /\ complexity_data = EmptyDict
    /\ debt_scores = EmptyDict
    /\ scorer_pc = "ready"
    /\ disk \in PipelineDisks
    /\ repo \in {Commits, CommitsA, <<>>}
    /\ utcnow = Today
    /\ git_fault = NoFault
    /\ runs = <<>>
    /\ edits = 0
    /\ raw_path = NoPath
    /\ norm_keys = EmptyDict
    /\ analyzer_tasks = NoAnalyzers

\* One run of analyze_project on the project root
RunPipeline(fault) ==
    \E r \in {analyze_project(RootDir, NoPath, Env(disk, repo, utcnow, fault))} :
       /\ Len(runs) < 2
       /\ ~r.raised
       /\ heat_data' = r.git_analysis
       /\ complexity_data' = r.complexity_analysis
       /\ debt_scores' = r.debt_scores
       /\ git_fault' = fault
       /\ runs' = Append(runs, [now |-> utcnow, faulty |-> fault # NoFault,
                                debt_scores |-> r.debt_scores])
       /\ scorer_pc' = "done"
       /\ UNCHANGED <<coordVars, disk, repo, utcnow, edits, raw_path, norm_keys, analyzer_tasks>>

\* Time passes
Tick(days) ==
    /\ utcnow + days <= Today + MaxAge
    /\ utcnow' = utcnow + days
    /\ UNCHANGED <<coordVars, scorerVars>>
    /\ UNCHANGED <<disk, repo, git_fault, runs, edits, raw_path, norm_keys, analyzer_tasks>>

NextPipeline ==
    \/ \E fault \in GitFaults(repo) : RunPipeline(fault)
    \/ \E days \in TickDays : Tick(days)

SpecPipeline == InitPipeline /\ [][NextPipeline]_vars

-----------------------------------------------------------------------------
(* Join harness: the two analyzer tasks of analyze_project (lines 37-45)    *)
(* take their steps in any order; the orchestrator resumes from gather      *)

\* A join that resumes when one of the tasks is done
gather_first_completed(tasks) == tasks.git.pc = "done" \/ tasks.complexity.pc = "done"

\* await asyncio.gather(git_task, complexity_task): both tasks are done
gather(tasks) == tasks.git.pc = "done" /\ tasks.complexity.pc = "done"

\* A task returns result
Return(t, result) == [t EXCEPT !.pc = "done", !.result = result]

InitJoin ==
    /\ CoordInit({RootDir})
    /\ heat_data = EmptyDict
    /\ complexity_data = EmptyDict
    /\ debt_scores = EmptyDict
    /\ scorer_pc = "gathering"
    /\ disk \in PipelineDisks
    /\ repo \in {Commits, CommitsA, <<>>}
    /\ utcnow = Today
    /\ git_fault \in GitFaults(repo)
    /\ runs = <<>>
    /\ edits = 0
    /\ raw_path = NoPath
    /\ norm_keys = EmptyDict
    /\ analyzer_tasks = NoAnalyzers

\* One step of GitHistoryAnalyzer.analyze(RootDir): the repository is
\* opened, one commit is traversed, or the task returns
GitStep ==
    LET t == analyzer_tasks.git
    IN /\ t.pc # "done"
       /\ analyzer_tasks' =
            [analyzer_tasks EXCEPT !.git =
                IF t.pc = "created"
                THEN IF git_fault = OpenFault \/ _resolve_repo_root(RootDir) # RootDir
                     THEN Return(t, EmptyDict)
                     ELSE [t EXCEPT !.pc = "running"]
                ELSE IF t.next > Len(repo)
                THEN Return(t, _calculate_heat_scores(t.partial, utcnow))
                ELSE IF git_fault = TraverseFault(t.next)
                THEN Return(t, EmptyDict)
                ELSE [t EXCEPT !.next = @ + 1,
                               !.partial = FilesLoop(@, repo[t.next],
                                                     repo[t.next].modified_files, 1)]]
       /\ UNCHANGED <<coordVars, scorerVars>>
       /\ UNCHANGED <<disk, repo, utcnow, git_fault, runs, edits, raw_path, norm_keys>>

\* One step of CodeComplexityAnalyzer.analyze(RootDir, project_root=RootDir):
\* one file is analyzed, or the task returns
ComplexityStep ==
    LET t == analyzer_tasks.complexity
        files == _find_source_files(RootDir, disk)
    IN /\ t.pc # "done"
       /\ analyzer_tasks' =
            [analyzer_tasks EXCEPT !.complexity =
                IF t.next > Len(files)
                THEN Return(t, t.partial)
                ELSE With(analyze_file(files[t.next],
                                       _determine_project_root(RootDir, RootDir), disk),
                          LAMBDA r :
                          [t EXCEPT !.pc = "running", !.next = @ + 1,
                                    !.partial = IF r.raised THEN @
                                                ELSE (r.rel_path :> r.metrics) @@ @])]
       /\ UNCHANGED <<coordVars, scorerVars>>
       /\ UNCHANGED <<disk, repo, utcnow, git_fault, runs, edits, raw_path, norm_keys>>

\* Lines 45-53: the orchestrator resumes with the values the tasks returned
\* and calls the scorer
Rejoin ==
    /\ scorer_pc = "gathering"
    /\ gather(analyzer_tasks)
    /\ heat_data' = analyzer_tasks.git.result
    /\ complexity_data' = analyzer_tasks.complexity.result
    /\ debt_scores' = calculate_debt_score(analyzer_tasks.git.result,
                                           analyzer_tasks.complexity.result)
    /\ scorer_pc' = "done"
    /\ UNCHANGED <<coordVars, harnessVars>>

NextJoin == GitStep \/ ComplexityStep \/ Rejoin

SpecJoin == InitJoin /\ [][NextJoin]_vars

-----------------------------------------------------------------------------
(* Inline analysis of one file: _run_inline_analysis of api/debts.py *)

\* Number of inline analyses of one behaviour
MaxInline == 2

\* _resolve_target_path for the absolute path of a file that exists
_resolve_target_path(incoming_path) == resolve(incoming_path)

\* _choose_storage_path
_choose_storage_path(raw_key, debt_data) ==
    LET complexity_metrics == GetDict(debt_data, "complexity_metrics")
        candidates == <<GetPath(complexity_metrics, "relative_path"), raw_key,
                        GetPath(complexity_metrics, "absolute_path")>>
        usable == SelectSeq(candidates,
                            LAMBDA c : c # NoPath /\ _normalize_storage_path(c) # <<>>)
    IN IF usable # <<>> THEN _normalize_storage_path(usable[1])
       ELSE _normalize_storage_path(raw_key)

\* func.lower(func.rtrim(func.replace(TechnicalDebt.file_path, '\\', '/'), '/'))
db_expr(file_path) == lower(rstrip_slash(replace_backslash(file_path)))

\* The rows that the query of lines 317-322 selects
matching(table, project_id, stored_path) ==
    LET normalized_lookup == _normalize_path(stored_path)
    IN {row \in BagToSet(table) :
           /\ row.project_id = project_id
           /\ IF normalized_lookup # <<>>
              THEN db_expr(row.file_path) = normalized_lookup
              ELSE row.file_path = stored_path}

\* One iteration of the loop of _persist_debt_scores (lines 313-354): the
\* row that query.first() yields is updated, or a row is inserted.  All rows
\* that match are equal up to the columns kept here.
upsert(table, project_id, stored_path) ==
    LET found == matching(table, project_id, stored_path)
        new_debt == [project_id |-> project_id, file_path |-> stored_path]
    IN IF found # {}
       THEN LET existing == CHOOSE row \in found : TRUE
            IN (table (-) SetToBag({existing})) (+) SetToBag({new_debt})
       ELSE table (+) SetToBag({new_debt})

\* _persist_debt_scores
RECURSIVE _persist_debt_scores(_, _, _, _)
_persist_debt_scores(table, project_id, scores, todo) ==
    IF todo = {} THEN table
    ELSE LET raw_key == CHOOSE k \in todo : TRUE
         IN _persist_debt_scores(
                upsert(table, project_id,
                       _choose_storage_path(raw_key, scores[raw_key])),
                project_id, scores, todo \ {raw_key})

\* The files of the project of the inline harness
InlineDisks ==
    {FileSystem(<<FileA, FileB, FileUpperB>>,
                (FileA :> SourceA) @@ (FileB :> srcB)
                @@ (FileUpperB :> FiveLines("javascript"))) :
        srcB \in {EmptySource("python"), Unparsable}}

InitInline ==
    /\ CoordInit({RootDir, NoPath})
    /\ heat_data = EmptyDict
    /\ complexity_data = EmptyDict
    /\ debt_scores = EmptyDict
    /\ scorer_pc = "off"
    /\ disk \in InlineDisks
    /\ repo \in {Commits, <<>>}
    /\ utcnow = Today
    /\ git_fault = NoFault
    /\ runs = <<>>
    /\ edits = 0
    /\ raw_path = NoPath
    /\ norm_keys = EmptyDict
    /\ analyzer_tasks = NoAnalyzers

\* The project_path that line 139 passes to analyze_project
inline_project_path(resolved_file) ==
    IF project.local_path # NoPath THEN project.local_path ELSE resolved_file

\* _run_inline_analysis(db, ExistingProject, incoming_path)
RunInline(incoming_path, fault) ==
    LET resolved_file == _resolve_target_path(incoming_path)
    IN \E analysis_result \in
           {analyze_project(inline_project_path(resolved_file), resolved_file,
                            Env(disk, repo, utcnow, fault))} :
       /\ Len(runs) < MaxInline
       /\ heat_data' = analysis_result.git_analysis
       /\ complexity_data' = analysis_result.complexity_analysis
       /\ debt_scores' = analysis_result.debt_scores
       /\ debts' = _persist_debt_scores(debts, ExistingProject,
                                        analysis_result.debt_scores,
                                        DOMAIN analysis_result.debt_scores)
       /\ raw_path' = resolved_file
       /\ git_fault' = fault
       /\ runs' = Append(runs, [file_path |-> resolved_file,
                                scored |-> analysis_result.debt_scores # EmptyDict])
       /\ UNCHANGED <<project, call, task, revoked, clock, faults>>
       /\ UNCHANGED <<scorer_pc, disk, repo, utcnow, edits, norm_keys, analyzer_tasks>>

NextInline ==
    \E incoming_path \in SourceFiles, fault \in {NoFault, OpenFault} :
        RunInline(incoming_path, fault)

SpecInline == InitInline /\ [][NextInline]_vars

-----------------------------------------------------------------------------
(* Path harness: the places that build or compare a FileKey, applied to     *)
(* spellings of one path                                                     *)

\* The file c of directory a under the project root, and its key
KeyAC == <<"a", "/", "c">>

\* Components of three spellings of a/c
Spellings == {<<"a", "c">>, <<"a", "b", "..", "c">>, <<"b", "..", "a", "c">>}
Separators == {<<"/">>, <<"\\">>}
Trailers == {<<>>, <<"/">>, <<"\\">>, <<"/", "/">>, <<"\\", "/">>}

\* One-character strings of a component
Chars(comp) == IF comp = ".." THEN DotDot ELSE <<comp>>

\* The components joined by the separators seps[1], seps[2], ...
RECURSIVE Spell(_, _, _)
Spell(comps, seps, i) ==
    IF i = Len(comps) THEN Chars(comps[i])
    ELSE Chars(comps[i]) \o seps[i] \o Spell(comps, seps, i + 1)

PathVariants ==
    {Spell(comps, seps, 1) \o trailer :
        comps \in Spellings, seps \in [1..3 -> Separators], trailer \in Trailers}

InitPaths ==
    /\ CoordInit({RootDir})
    /\ heat_data = EmptyDict
    /\ complexity_data = EmptyDict
    /\ debt_scores = EmptyDict
    /\ scorer_pc = "off"
    /\ disk = RepoFiles
    /\ repo = Commits
    /\ utcnow = Today
    /\ git_fault = NoFault
    /\ runs = <<>>
    /\ edits = 0
    /\ raw_path \in PathVariants
    /\ norm_keys = EmptyDict
    /\ analyzer_tasks = NoAnalyzers

\* The path (relative to the project root) goes through the key of a single
\* file analysis, the key of a metrics entry, the storage path of a debt
\* and the lookup path of a debt
NormalizePath ==
    /\ norm_keys = EmptyDict
    /\ norm_keys' =
           [target_key |-> _derive_relative_key(RootDir, RootDir \o <<"/">> \o raw_path),
            metrics_key |-> _normalize_key(raw_path),
            storage_path |-> _normalize_storage_path(raw_path),
            lookup_path |-> _normalize_path(raw_path)]
    /\ UNCHANGED <<coordVars, scorerVars>>
    /\ UNCHANGED <<disk, repo, utcnow, git_fault, runs, edits, raw_path,
                   analyzer_tasks>>

NextPaths == NormalizePath

SpecPaths == InitPaths /\ [][NextPaths]_vars

-----------------------------------------------------------------------------
(* Claims about the single-flight protocol *)

\* A run is active when it is enqueued and not revoked, or executing
Active(c) ==
    \/ task[c].state = "queued" /\ task_id(c) \notin revoked
    \/ task[c].state = "persisting"

\* Step of call c that ends its transaction on the project row
ClaimStep(c) == call[c].pc = "enqueued" /\ call'[c].pc = "returned"

\* C1: at most one analysis run of the project is active at any time.  Runs
\* whose Trigger is still between apply_async and its transaction are left
\* out, so the statement is the weakest reading of the claim.
C1_SingleFlight ==
    Cardinality({c \in Calls : /\ call[c].project_id = ExistingProject
                               /\ call[c].pc = "returned"
                               /\ Active(c)}) <= 1

\* C2: a Trigger that finds current_analysis_id set is not accepted and does
\* not replace current_analysis_id, whatever the status.
C2_TriggerAbortsWhenClaimed ==
    [][\A c \in Calls :
          (/\ ClaimStep(c)
           /\ call[c].project_id = ExistingProject
           /\ project.current_analysis_id # NullId)
          => /\ call'[c].outcome # "ok"
             /\ project'.current_analysis_id = project.current_analysis_id]_vars

\* No other call is in flight and every other run has ended without an
\* exception
OthersDone(c) ==
    \A d \in Calls \ {c} :
        /\ call[d].pc # "enqueued"
        /\ task[d].state \notin {"queued", "persisting"}
        /\ ~task[d].raised

\* C3: a Trigger whose transaction runs while the project is analyzing is
\* rejected with the conflict outcome, and a Trigger on the existing project
\* made when every earlier run has completed is accepted (database failures
\* aside).
C3_RejectedWhileAnalyzingThenAccepted ==
    [][\A c \in Calls :
          (ClaimStep(c) /\ call[c].project_id = ExistingProject
                        /\ call'[c].outcome # "db_error")
          => /\ project.status = "analyzing"
                  => call'[c].outcome = "already_analyzing"
             /\ OthersDone(c) => call'[c].outcome = "ok"]_vars

\* C4: once a run has ended with a caught exception, the project is not left
\* claimed by that run.
C4_CrashedRunReleasesProject ==
    \A c \in Calls :
        (task[c].state = "finished" /\ task[c].raised)
        => project.current_analysis_id # task_id(c)

FailureOutcomes == {"project_not_found", "already_analyzing", "db_error"}

\* C5: a Trigger that failed has revoked its task, and every enqueued,
\* non-revoked task of a returned Trigger is the current run of the project.
C5_NoOwnerlessWork ==
    \A c \in Calls :
        /\ call[c].outcome \in FailureOutcomes => task_id(c) \in revoked
        /\ (/\ call[c].pc = "returned"
            /\ call[c].project_id = ExistingProject
            /\ task[c].state = "queued"
            /\ task_id(c) \notin revoked)
           => project.current_analysis_id = task_id(c)

ClaimedIffBusy(p) ==
    (p.current_analysis_id # NullId) <=> (p.status \in {"queued", "analyzing"})

LifecycleSteps ==
    {<<"idle", "queued">>, <<"queued", "analyzing">>, <<"analyzing", "idle">>}

\* C6: current_analysis_id is non-null exactly when status is queued or
\* analyzing, and status only moves idle -> queued -> analyzing -> idle.
C6_ProjectStateMachine ==
    /\ ClaimedIffBusy(project)
    /\ [][/\ ClaimedIffBusy(project')
          /\ project'.status # project.status
                => <<project.status, project'.status>> \in LifecycleSteps]_vars

\* C7: when a run returns 'completed', the project has current_analysis_id
\* null, status idle, last_analysis_id the run's id and a completion time.
C7_CompletedRunReleasedProject ==
    [][\A c \in Calls :
          (task[c].result # "completed" /\ task'[c].result = "completed")
          => /\ project'.current_analysis_id = NullId
             /\ project'.status = "idle"
             /\ project'.last_analysis_id = task_id(c)
             /\ project'.last_analysis_at # NoTime]_vars

\* C8: when no run is executing, the store holds at most one debt record
\* per (project, file key).
C8_OneDebtRecordPerFile ==
    (\A c \in Calls : task[c].state # "persisting")
    => \A row \in BagToSet(debts) : CopiesIn(row, debts) <= 1

\* Keys that denote the file a Trigger asked for
RequestedKeys(fp) == {_normalize_key(fp), _normalize_key(name(fp))}

\* C9: a run triggered with a file path scores and persists records for the
\* requested file only.
C9_SingleFileRunDoesNotLeak ==
    \A c \in Calls :
        (task[c].state = "persisting" /\ call[c].file_path # NoPath)
        => \A k \in DOMAIN task[c].scores :
               _normalize_key(k) \in RequestedKeys(call[c].file_path)

-----------------------------------------------------------------------------
(* Claims about the scorer *)

\* C10: calculate_debt_score returns a record for exactly the keys of the
\* union of the heat map and the complexity map, and the heat_component of
\* a key that has no heat metrics is 0.
C10_RecordForEveryKey ==
    scorer_pc = "done"
    => /\ DOMAIN debt_scores = DOMAIN heat_data \cup DOMAIN complexity_data
       /\ \A k \in DOMAIN debt_scores :
             k \notin DOMAIN heat_data
             => debt_scores[k].score_breakdown.heat_component = 0

\* C10 witness: history unavailable, complexity map populated, scored
C10_Witness ==
    /\ scorer_pc = "done"
    /\ heat_data = EmptyDict
    /\ DOMAIN complexity_data = ScoreKeys
    /\ DOMAIN debt_scores = ScoreKeys

\* The ladder of the claim, written on the score as a fraction of DebtUnit
Ladder(score) ==
    IF 4 * score >= DebtUnit THEN "critical"
    ELSE IF 20 * score >= 3 * DebtUnit THEN "high"
    ELSE IF 20 * score >= DebtUnit THEN "medium"
    ELSE "low"

\* C11: every record of calculate_debt_score has 0 <= debt_score <= 1 and
\* its severity is the ladder value of that score (critical from 0.25, high
\* from 0.15, medium from 0.05, low below).
C11_ScoreRangeAndSeverity ==
    scorer_pc = "done"
    => \A k \in DOMAIN debt_scores :
          /\ debt_scores[k].debt_score >= 0
          /\ debt_scores[k].debt_score <= DebtUnit
          /\ debt_scores[k].severity = Ladder(debt_scores[k].debt_score)

\* C11 witness: scored records on a threshold of the ladder (0.05), below
\* the cap and at the cap
C11_Witness ==
    /\ scorer_pc = "done"
    /\ \E k \in DOMAIN debt_scores :
          20 * debt_scores[k].debt_score = DebtUnit /\ debt_scores[k].severity = "medium"
    /\ \E k \in DOMAIN debt_scores : debt_scores[k].severity = "critical"

-----------------------------------------------------------------------------
(* Claims about the analyzers *)

\* The metrics of the analyzed file in a result of the analyzer
Analyzed(data) == KeyA \in DOMAIN data
HasFlag(data, flag) ==
    \E i \in DOMAIN data[KeyA].smell_flags : data[KeyA].smell_flags[i] = flag
MinifiedFlag == "Potentially minified or generated asset"

\* An analysis of the file is completed by this step
AnalysisStep == scorer_pc = "ready" /\ scorer_pc' = "done"

C15_EmptyFileMetrics ==
    (/\ scorer_pc = "done"
     /\ Analyzed(complexity_data)
     /\ disk.files[FileA].lines = <<>>)
    => /\ complexity_data[KeyA].lines_of_code = 0
       /\ complexity_data[KeyA].comment_density = 0
       /\ complexity_data[KeyA].long_line_count = 0
       /\ complexity_data[KeyA].longest_line = 0
       /\ overlength_term(disk.files[FileA].lines) = 0
       /\ extreme_term(disk.files[FileA].lines) = 0

\* C20: each of the six components that enter the debt formula lies in
\* [0, 1], for heat_score, smell_score and comment_density in [0, 1], a
\* maintainability index in [0, 100] and non-negative counts.
C20_ComponentsNormalized ==
    \A k \in DOMAIN debt_scores :
        \A part \in DOMAIN debt_scores[k].score_breakdown :
            /\ debt_scores[k].score_breakdown[part] >= 0
            /\ debt_scores[k].score_breakdown[part] <= ScoreUnit

\* C21: for a maintainability index MI in 0..100 that is present in the
\* complexity metrics of a file, maintainability_component is
\* min(max((100 - MI) / 60, 0), 1); MI = 0 gives 1.
C21_MaintainabilityComponent ==
    \A k \in DOMAIN debt_scores :
        "maintainability_index" \in DOMAIN debt_scores[k].complexity_metrics
        => LET MI == debt_scores[k].complexity_metrics.maintainability_index
           IN debt_scores[k].score_breakdown.maintainability_component
                 = Min(Max((100 * ScoreUnit - MI) \div 60, 0), ScoreUnit)

-----------------------------------------------------------------------------
(* Claims about the pipeline *)

\* The last run of the pipeline read the history without a fault, on the
\* day of the last commit of file a
ScenarioC14 ==
    /\ runs # <<>>
    /\ git_fault = NoFault
    /\ repo # <<>>
    /\ runs[Len(runs)].now = Today

\* C14: a file with 10 commits, 3 authors, 600 changed lines and last
\* modified today gets heat_score = 1.0.
C14_ScenarioHeatIsOne ==
    ScenarioC14 => heat_data[KeyA].heat_score = ScoreUnit

\* C14 as amended: that file gets heat_score = 0.95
\* (0.35 * 1 + 0.30 * 1 + 0.20 * 0.75 + 0.15 * 1), below the cap.
C14_ScenarioHeatIsNineteenTwentieths ==
    ScenarioC14
    => /\ heat_data[KeyA].change_count = 10
       /\ heat_data[KeyA].author_count = 3
       /\ heat_data[KeyA].churn = 600
       /\ heat_data[KeyA].heat_score = (19 * ScoreUnit) \div 20

\* C14 witness: the scenario was analyzed
C14_Witness ==
    /\ ScenarioC14
    /\ KeyA \in DOMAIN heat_data
    /\ heat_data[KeyA].last_modified = <<Today>>

\* Both runs were made and neither met a fault of the repository
TwoCleanRuns == Len(runs) = 2 /\ ~runs[1].faulty /\ ~runs[2].faulty

\* C16: two runs of the pipeline on the unchanged project and history yield
\* the same records, whatever the times of the runs.
C16_RerunIdentical ==
    TwoCleanRuns => runs[1].debt_scores = runs[2].debt_scores

\* Age in days at time t of a file last modified at last_modified
Age(t, last_modified) == Max(0, t - last_modified[1])

\* Every file of the history has the same recency at both times
SameRecency(t1, t2) ==
    \A k \in DOMAIN heat_data :
        LET a1 == Age(t1, heat_data[k].last_modified)
            a2 == Age(t2, heat_data[k].last_modified)
        IN \/ a1 = a2
           \/ a1 <= 7 /\ a2 <= 7
           \/ a1 >= 180 /\ a2 >= 180

\* C16 as amended: the two runs yield the same records when every file of
\* the history has the same recency at both times.
C16_RerunIdenticalAtSameRecency ==
    (TwoCleanRuns /\ SameRecency(runs[1].now, runs[2].now))
    => runs[1].debt_scores = runs[2].debt_scores

\* C16 witness: two runs on different days within a week of the last commit
C16_Witness ==
    /\ TwoCleanRuns
    /\ runs[1].now # runs[2].now
    /\ heat_data # EmptyDict
    /\ SameRecency(runs[1].now, runs[2].now)
    /\ runs[2].debt_scores # EmptyDict

\* C17: when opening the repository or a step of the traversal faults, the
\* history analysis yields the empty mapping (nothing of what was
\* accumulated before the fault) and the run goes on to score every file
\* of the complexity mapping.
C17_HistoryAllOrNothing ==
    (runs # <<>> /\ git_fault # NoFault)
    => /\ heat_data = EmptyDict
       /\ DOMAIN debt_scores = DOMAIN complexity_data
       /\ runs[Len(runs)].debt_scores = debt_scores

\* C17 witness: the traversal faulted at the sixth commit, after entries
\* for both files had been accumulated, and the run scored the files
C17_Witness ==
    /\ runs # <<>>
    /\ repo = Commits
    /\ git_fault = TraverseFault(6)
    /\ debt_scores # EmptyDict

\* Files of the disk whose analysis raises no exception
Analyzable(fs) ==
    {f \in DOMAIN fs.files :
        fs.files[f].readable /\ (fs.files[f].language = "python" => fs.files[f].parses)}

\* C18: the complexity mapping has an entry for exactly the discovered
\* files that analyze without exception, wherever the failing file is in
\* the discovery order.
C18_FailingFileSkippedAlone ==
    runs # <<>>
    => DOMAIN complexity_data = {relative_to(f, RootDir) : f \in Analyzable(disk)}

\* C18 witness: the first discovered file failed and the second one is in
\* the mapping
C18_Witness ==
    /\ runs # <<>>
    /\ disk.order[1] \notin Analyzable(disk)
    /\ disk.order[2] \in Analyzable(disk)
    /\ relative_to(disk.order[2], RootDir) \in DOMAIN complexity_data

-----------------------------------------------------------------------------
(* Claims about failures while the records are saved *)

\* A step of the loop of task c in which debt_repo.create raised
FailedPersist(c) ==
    /\ task[c].state = "persisting"
    /\ task[c].remaining # {}
    /\ task'[c] # task[c]
    /\ faults' = faults + 1

\* C19: a failure to save the record of one file is swallowed: the file is
\* counted in the progress, the loop goes on with the remaining files, and
\* the run leaves the loop only when every file was attempted, with status
\* 'completed'.
C19_PersistFailureSwallowed ==
    [][\A c \in Calls :
          /\ FailedPersist(c)
             => /\ task'[c].state = "persisting"
                /\ task'[c].remaining =
                      task[c].remaining \ {next_item(task[c].remaining)}
                /\ task'[c].processed = task[c].processed + 1
                /\ debts' = debts
          /\ (task[c].state = "persisting" /\ task'[c].state # "persisting")
             => /\ task[c].remaining = {}
                /\ task[c].processed = Cardinality(DOMAIN task[c].scores)
                /\ task'[c].state = "finished"
                /\ task'[c].result = "completed"]_vars

\* C19 witness: the only run, of the whole project, completed with the
\* record of one of its two files missing
C19_Witness ==
    \E c \in Calls :
        /\ task[c].state = "finished"
        /\ task[c].result = "completed"
        /\ call[c].file_path = NoPath
        /\ BagCardinality(debts) = 1
        /\ \A d \in Calls \ {c} : task[d] = NoTask

-----------------------------------------------------------------------------
(* Claims about the analysis of a single file *)

\* The target key of the last inline analysis
InlineTargetKey == _derive_relative_key(inline_project_path(raw_path), raw_path)

\* Key key with value value denotes the requested file
DenotesTarget(key, value) ==
    \/ _normalize_key(key) = InlineTargetKey
    \/ _normalize_key(GetPath(value, "relative_path")) = InlineTargetKey
    \/ _normalize_key(GetPath(value, "absolute_path")) = InlineTargetKey

\* What the two analyzers produced in the last inline analysis
InlineEnv == Env(disk, repo, utcnow, git_fault)
ProducedHeat == GitHistoryAnalyzer_analyze(inline_project_path(raw_path), InlineEnv)
ProducedComplexity ==
    CodeComplexityAnalyzer_analyze(raw_path, inline_project_path(raw_path), disk)

\* C22: after analyze_project with a file_path, every key of the three output
\* maps denotes the requested file, and the entry of the requested file is
\* kept in each map for which an analyzer produced it.
C22_SingleFileFilter ==
    runs # <<>>
    => /\ \A k \in DOMAIN heat_data : DenotesTarget(k, heat_data[k])
       /\ \A k \in DOMAIN complexity_data : DenotesTarget(k, complexity_data[k])
       /\ \A k \in DOMAIN debt_scores : DenotesTarget(k, debt_scores[k])
       /\ \A k \in DOMAIN ProducedHeat :
             _normalize_key(k) = InlineTargetKey
             => k \in DOMAIN heat_data /\ k \in DOMAIN debt_scores
       /\ \A k \in DOMAIN ProducedComplexity :
             _normalize_key(k) = InlineTargetKey
             => k \in DOMAIN complexity_data /\ k \in DOMAIN debt_scores

\* C22 witness: file a was requested, the history has entries for a and b,
\* and the entries of a are what is left
C22_Witness ==
    /\ runs # <<>>
    /\ raw_path = FileA
    /\ DOMAIN ProducedHeat = {KeyA, KeyB}
    /\ DOMAIN heat_data = {KeyA}
    /\ DOMAIN complexity_data = {KeyA}
    /\ DOMAIN debt_scores = {KeyA}

\* Rows of the store for file f of the project
RowsOf(f) ==
    {row \in BagToSet(debts) :
        /\ row.project_id = ExistingProject
        /\ resolve(RootDir \o <<"/">> \o row.file_path) = f}

\* C30: repeated inline analysis of a file leaves exactly one debt record
\* for that (project, file), also for a path with upper-case letters.
C30_InlineUpsert ==
    \A i \in DOMAIN runs :
        runs[i].scored
        => /\ Cardinality(RowsOf(runs[i].file_path)) = 1
           /\ \A row \in RowsOf(runs[i].file_path) : CopiesIn(row, debts) = 1

-----------------------------------------------------------------------------
(* Claims about the progress and the outcome of a run *)

\* A step in which task c emits a progress update
ProgressUpdate(c) == task'[c].celery = "PROGRESS" /\ task'[c] # task[c]

\* C23: within a run the processed count of the progress updates grows by
\* exactly one per file, never exceeds the total, and at the last update it
\* is the number of scored files.
C23_ProgressMonotone ==
    [][\A c \in Calls :
          ProgressUpdate(c)
          => /\ task'[c].processed = task[c].processed + 1
             /\ task'[c].total = task[c].total
             /\ task'[c].processed <= task'[c].total
             /\ task'[c].remaining = {}
                => task'[c].processed = Cardinality(DOMAIN task'[c].scores)]_vars

\* C23 witness: the last of two progress updates of a run was emitted
C23_Witness ==
    \E c \in Calls :
        /\ task[c].celery = "PROGRESS"
        /\ task[c].remaining = {}
        /\ task[c].processed = 2
        /\ task[c].total = 2

\* C24: the scorer is invoked only after both analyzers have completed, and
\* with the maps they returned, never with a map that is still being filled.
C24_ScoreAfterJoin ==
    scorer_pc = "done"
    => /\ analyzer_tasks.git.pc = "done"
       /\ analyzer_tasks.complexity.pc = "done"
       /\ heat_data = GitHistoryAnalyzer_analyze(
                          RootDir, Env(disk, repo, utcnow, git_fault))
       /\ complexity_data = CodeComplexityAnalyzer_analyze(RootDir, RootDir, disk)
       /\ DOMAIN debt_scores = DOMAIN heat_data \cup DOMAIN complexity_data

\* C24 witness: the scorer ran on a history of both files and on the
\* metrics of two files
C24_Witness ==
    /\ scorer_pc = "done"
    /\ analyzer_tasks.git.next > Len(Commits)
    /\ analyzer_tasks.complexity.next = 3
    /\ DOMAIN heat_data = {KeyA, KeyB}
    /\ DOMAIN complexity_data = {KeyA, KeyB}

\* C25: when a run ends with a run-fatal exception, a record of the audit
\* log carries the detail of the exception.
C25_FatalErrorLogged ==
    \A c \in Calls :
        (task[c].state = "finished" /\ task[c].raised)
        => \E i \in DOMAIN task[c].scan_log :
               task[c].scan_log[i].details \notin
                   {"metadata", "No files analyzed or results empty"}

\* C26: Query reports pending before the run starts, running while it is
\* analyzing (also between progress updates), completed only after a
\* successful run, and failed after a run that ended with a caught
\* exception.
C26_QueryFaithful ==
    \A c \in Calls :
        LET status == get_analysis_status(task[c].celery)
        IN /\ task[c].state = "queued" => status = "pending"
           /\ task[c].state = "persisting" => status = "running"
           /\ (task[c].state = "finished" /\ task[c].result = "completed")
              => status = "completed"
           /\ (task[c].state = "finished" /\ task[c].result = "error")
              => status = "failed"
           /\ status = "completed" => task[c].result = "completed"

\* C27: Trigger writes its run identity into current_analysis_id only if
\* the task of that identity was enqueued: a Trigger whose apply_async raised
\* fails and the project record does not carry its identity.
C27_ClaimOnlyIfEnqueued ==
    \A c \in Calls :
        (call[c].pc # "init" /\ task[c].state = "none")
        => /\ project.current_analysis_id # task_id(c)
           /\ call[c].pc = "returned" => call[c].outcome # "ok"

\* C28: when the worker has started or finished the task between
\* apply_async and the transaction of the Trigger, the Trigger is not
\* rejected because of its own run, and after the transaction of a Trigger
\* whose task has already finished the project does not carry the identity
\* of that finished run.
C28_EnqueueBeforeClaim ==
    [][\A c \in Calls :
          (ClaimStep(c) /\ task[c].state \in {"persisting", "finished"})
          => /\ project.current_analysis_id = task_id(c)
                  => call'[c].outcome # "already_analyzing"
             /\ task[c].state = "finished"
                  => project'.current_analysis_id # task_id(c)]_vars

\* C29: a step of the task of run r leaves current_analysis_id alone when the
\* field holds the identity of another run: a starting run does not replace,
\* and a finishing run does not clear, the claim of a different run.
C29_ClaimChangedByOwnerOnly ==
    [][\A c \in Calls :
          (/\ task'[c] # task[c]
           /\ project.current_analysis_id \notin {NullId, task_id(c)})
          => project'.current_analysis_id = project.current_analysis_id]_vars

-----------------------------------------------------------------------------
(* Claims about the file keys *)

\* C13: every spelling of a/c (with a '..' segment, with mixed separators,
\* with a trailing slash) gets the key a/c in every place that builds or
\* compares a FileKey.
C13_NormalizationEquivalence ==
    norm_keys # EmptyDict
    => /\ norm_keys.target_key = KeyAC
       /\ norm_keys.metrics_key = KeyAC
       /\ norm_keys.storage_path = KeyAC
       /\ norm_keys.lookup_path = KeyAC

====
